---- MODULE Spec2Model ----
(***************************************************************************)
(* A model of the front-desk supervisor backend: the Firestore-backed      *)
(* help-request store and knowledge base of apps/frontend/lib/store.ts and *)
(* the route handlers of apps/frontend/app/api that drive them.            *)
(*                                                                         *)
(* A Firestore document is a function from field names to values; a field  *)
(* that is absent from the document is absent from the function's domain.  *)
(* A string is a sequence of one-character strings, so that trim() and     *)
(* toLowerCase() are computed.  A timestamp is a natural number.  Every    *)
(* await on a Firestore call is one step of the caller that makes it.      *)
(***************************************************************************)
EXTENDS Integers, Sequences, FiniteSets, TLC

VARIABLES
    requests,      \* the helpRequests collection: document id -> document
    knowledge,     \* the knowledgeBase collection: document id -> document
    clock,         \* the wall clock read by new Date()
    seedPromise,   \* the module variable knowledgeSeedPromise
    seedPending,   \* seed writes of the running seeding attempt not yet settled
    seedOrphans,   \* seed writes of a rejected attempt that are still in flight
    pc,            \* each caller's position in its handler
    frame,         \* each caller's request and the locals of its handler
    resp,          \* each caller's HTTP response
    calls          \* the number of requests issued so far

vars == <<requests, knowledge, clock, seedPromise, seedPending, seedOrphans,
          pc, frame, resp, calls>>

----------------------------------------------------------------------------
(* Bounds of the model. *)

MaxCalls == 3
MaxClock == 3
MaxRequests == 1
MaxLearned == 2
SeedCount == 2

Callers == {"c1", "c2"}

----------------------------------------------------------------------------
(* Strings. *)

Empty == [f \in {} |-> f]

IsSpace(c) == c = " "

UpperCase == <<"A", "B", "C", "H", "L", "P", "S">>
LowerCase == <<"a", "b", "c", "h", "l", "p", "s">>

toLowerChar(c) ==
    IF \E i \in DOMAIN UpperCase : UpperCase[i] = c
    THEN LowerCase[CHOOSE i \in DOMAIN UpperCase : UpperCase[i] = c]
    ELSE c

toLowerCase(s) == [i \in DOMAIN s |-> toLowerChar(s[i])]

RECURSIVE trimStart(_)
trimStart(s) ==
    IF s # <<>> /\ IsSpace(Head(s)) THEN trimStart(Tail(s)) ELSE s

RECURSIVE trimEnd(_)
trimEnd(s) ==
    IF s # <<>> /\ IsSpace(s[Len(s)]) THEN trimEnd(SubSeq(s, 1, Len(s) - 1)) ELSE s

trim(s) == trimEnd(trimStart(s))

\* input.customerName?.trim() and the like: undefined when the field is absent.
trimOptional(input, f) == IF f \in DOMAIN input THEN trim(input[f]) ELSE <<>>

\* { ...record, [f]: value } when value is truthy, record otherwise.
withTruthy(record, f, value) ==
    IF value # <<>> THEN (f :> value) @@ record ELSE record

----------------------------------------------------------------------------
(* Firestore documents. *)

\* A write that replaces the document by the fields written.
docReplace(doc, u, deleted) == u

\* docRef.update(u): the fields of u are written, the fields whose value is
\* FieldValue.delete() are removed, every other field is kept.
docUpdate(doc, u, deleted) ==
    [f \in (DOMAIN doc \cup DOMAIN u) \ deleted |->
        IF f \in DOMAIN u THEN u[f] ELSE doc[f]]

helpRequestFields ==
    {"question", "customerName", "customerPhone", "channel", "status",
     "createdAt", "updatedAt", "answer", "supervisorName", "supervisorNotes",
     "resolvedAt", "respondedAt", "timedOutAt"}

sanitizeHelpRequest(data, id) ==
    [f \in (DOMAIN data \cap helpRequestFields) \cup {"id"} |->
        IF f = "id" THEN id ELSE data[f]]

knowledgeEntryFields ==
    {"id", "question", "answer", "tags", "source", "createdAt", "updatedAt"}

sanitizeKnowledgeEntry(data, id) ==
    [f \in (DOMAIN data \cap knowledgeEntryFields) \cup {"id"} |->
        IF f \in DOMAIN data THEN data[f] ELSE id]

----------------------------------------------------------------------------
(* The inputs the callers draw from. *)

CreateInputs ==
    { [question |-> <<" ", "a", " ", "b", " ">>],
      [question |-> <<"H", "r", "s">>, customerName |-> <<"n">>,
       customerPhone |-> <<" ", "5">>, channel |-> <<" ">>] }

AnswerInputs == { <<"x">>, <<" ", "y">> }

SupervisorInputs ==
    { Empty, [supervisorName |-> <<"s", " ">>, supervisorNotes |-> <<" ">>] }

ResolveBodies(supervisors, learn, tags) ==
    { [answer |-> a] @@ s @@ l @@ t :
        a \in AnswerInputs, s \in supervisors, l \in learn, t \in tags }

\* The bodies of a supervisor who leaves the knowledge base alone.
PatchBodiesNoLearn ==
    { [action |-> "timeout"] } \cup
    ResolveBodies(SupervisorInputs, {[shouldAddToKnowledgeBase |-> FALSE]}, {Empty})

\* The bodies of a supervisor whose answers are learned.
PatchBodiesLearn ==
    { [action |-> "timeout"] } \cup
    ResolveBodies({Empty}, {Empty}, {Empty, [tags |-> << <<"t">>, <<" ">> >>]})

UpsertInputs ==
    { [question |-> <<"A", " ", "b">>, answer |-> <<"x">>,
       tags |-> << <<"t">>, <<" ">> >>, source |-> "ai"],
      [question |-> <<" ", "a", " ", "b", " ">>, answer |-> <<" ", "y">>],
      [question |-> <<"a", " ", " ", "b">>, answer |-> <<"x">>, tags |-> <<>>],
      [question |-> <<"h", "r", "s">>, answer |-> <<"x">>, tags |-> << <<" ">> >>] }

RequestIds == 1 .. MaxRequests

----------------------------------------------------------------------------
(* The caller's handler state. *)

NoResponse == [status |-> 0]

Idle == [op |-> "idle"]

\* new Date(): the clock's value; the clock may have advanced by the next read.
ClockAfterRead == { clock, IF clock < MaxClock THEN clock + 1 ELSE clock }

Finish(p, status, body) ==
    /\ pc' = [pc EXCEPT ![p] = "done"]
    /\ resp' = [resp EXCEPT ![p] = [status |-> status, body |-> body]]

Goto(p, label) ==
    /\ pc' = [pc EXCEPT ![p] = label]
    /\ UNCHANGED resp

SetLocals(p, locals) == frame' = [frame EXCEPT ![p] = locals @@ frame[p]]

seedVars == <<seedPromise, seedPending, seedOrphans>>

----------------------------------------------------------------------------
(* POST /api/help-requests and createHelpRequest. *)

FreshRequestId == CHOOSE i \in RequestIds \ DOMAIN requests :
                      \A j \in RequestIds \ DOMAIN requests : i <= j

PostHelpRequest(p, payload) ==
    /\ pc[p] = "idle"
    /\ calls < MaxCalls
    /\ calls' = calls + 1
    /\ frame' = [frame EXCEPT ![p] = [op |-> "create", input |-> payload]]
    /\ IF "question" \notin DOMAIN payload \/ payload.question = <<>>
       THEN Finish(p, 400, [error |-> "question is required"])
       ELSE Goto(p, "createSet")
    /\ UNCHANGED <<requests, knowledge, clock, seedVars>>

createRecord(input, id, now) ==
    withTruthy(
      withTruthy(
        withTruthy(
          [id |-> id, question |-> trim(input.question), status |-> "pending",
           createdAt |-> now, updatedAt |-> now],
          "customerName", trimOptional(input, "customerName")),
        "customerPhone", trimOptional(input, "customerPhone")),
      "channel", trimOptional(input, "channel"))

createHelpRequest(p) ==
    /\ pc[p] = "createSet"
    /\ RequestIds \ DOMAIN requests # {}
    /\ LET record == createRecord(frame[p].input, FreshRequestId, clock)
       IN /\ requests' = (FreshRequestId :> record) @@ requests
          /\ Finish(p, 201, record)
    /\ clock' \in ClockAfterRead
    /\ UNCHANGED <<knowledge, seedVars, frame, calls>>

----------------------------------------------------------------------------
(* PATCH /api/help-requests/[id] and updateHelpRequest. *)

Patch(p, id, body) ==
    /\ pc[p] = "idle"
    /\ calls < MaxCalls
    /\ calls' = calls + 1
    /\ frame' = [frame EXCEPT ![p] = [op |-> "patch", id |-> id, body |-> body]]
    /\ Goto(p, "routeGet")
    /\ UNCHANGED <<requests, knowledge, clock, seedVars>>

\* const existing = await getHelpRequest(id), and the checks of the body.
PatchGet(p) ==
    /\ pc[p] = "routeGet"
    /\ LET id == frame[p].id
           body == frame[p].body
       IN IF id \notin DOMAIN requests
          THEN Finish(p, 404, [error |-> "Not found"])
          ELSE IF "action" \in DOMAIN body /\ body.action = "timeout"
          THEN Goto(p, "updateGet")
          ELSE IF "answer" \notin DOMAIN body \/ body.answer = <<>>
          THEN Finish(p, 400, [error |-> "answer is required when resolving"])
          ELSE Goto(p, "updateGet")
    /\ UNCHANGED <<requests, knowledge, clock, seedVars, frame, calls>>

IsTimeout(p) == "action" \in DOMAIN frame[p].body /\ frame[p].body.action = "timeout"

\* A check that lets every answer pass.
answerNeverMissing(input) == FALSE

\* const answer = input.answer?.trim(); if (!answer) throw
answerMissing(input) == trimOptional(input, "answer") = <<>>

\* const snapshot = await docRef.get(); existing; now; the answer check.
updateHelpRequestGet(p) ==
    /\ pc[p] = "updateGet"
    /\ LET id == frame[p].id
       IN IF id \notin DOMAIN requests
          THEN /\ Finish(p, 500, [error |-> "Failed to update help request"])
               /\ UNCHANGED <<frame, clock>>
          ELSE /\ SetLocals(p, [existing |-> sanitizeHelpRequest(requests[id], id),
                                now |-> clock])
               /\ clock' \in ClockAfterRead
               /\ IF ~IsTimeout(p) /\ answerMissing(frame[p].body)
                  THEN Finish(p, 500, [error |-> "Failed to update help request"])
                  ELSE Goto(p, "updateWrite")
    /\ UNCHANGED <<requests, knowledge, seedVars, calls>>

\* A timeout that leaves updatedAt as it was.
timeoutUpdatesStale(now) == [status |-> "timeout", timedOutAt |-> now]

timeoutUpdates(now) == [status |-> "timeout", updatedAt |-> now, timedOutAt |-> now]

\* A resolve that stores the answer as typed and stamps no resolvedAt.
resolveUpdatesAsTyped(input, now) ==
    [status |-> "resolved", answer |-> input.answer, updatedAt |-> now,
     respondedAt |-> now]

resolveUpdates(input, now) ==
    withTruthy(
      withTruthy(
        [status |-> "resolved", answer |-> trim(input.answer), updatedAt |-> now,
         resolvedAt |-> now, respondedAt |-> now],
        "supervisorName", trimOptional(input, "supervisorName")),
      "supervisorNotes", trimOptional(input, "supervisorNotes"))

\* A resolve that leaves timedOutAt in place.
resolveDeletesKeepingTimedOutAt(input) ==
    (IF trimOptional(input, "supervisorName") = <<>> THEN {"supervisorName"} ELSE {})
      \cup (IF trimOptional(input, "supervisorNotes") = <<>> THEN {"supervisorNotes"} ELSE {})

resolveDeletes(input) ==
    {"timedOutAt"}
      \cup (IF trimOptional(input, "supervisorName") = <<>> THEN {"supervisorName"} ELSE {})
      \cup (IF trimOptional(input, "supervisorNotes") = <<>> THEN {"supervisorNotes"} ELSE {})

\* An update that drops the timeout.
updatedDocumentWithoutTimeout(doc, input, now) ==
    IF "action" \in DOMAIN input /\ input.action = "timeout"
    THEN doc
    ELSE docUpdate(doc, resolveUpdates(input, now), resolveDeletes(input))

\* The document as docRef.update leaves it.
updatedDocument(doc, input, now) ==
    IF "action" \in DOMAIN input /\ input.action = "timeout"
    THEN docUpdate(doc, timeoutUpdates(now), {})
    ELSE docUpdate(doc, resolveUpdates(input, now), resolveDeletes(input))

\* The HelpRequest updateHelpRequest returns, built from the snapshot.
updateResult(existing, input, now) ==
    IF "action" \in DOMAIN input /\ input.action = "timeout"
    THEN docUpdate(existing, timeoutUpdates(now), {})
    ELSE docUpdate(existing, resolveUpdates(input, now), resolveDeletes(input))

\* A route that learns every answer.
shouldAddAlways(body) == TRUE

shouldAdd(body) ==
    IF "shouldAddToKnowledgeBase" \notin DOMAIN body
    THEN TRUE
    ELSE body.shouldAddToKnowledgeBase

\* body.tags when it is a non-empty array, undefined otherwise.
patchTags(body) ==
    IF "tags" \in DOMAIN body /\ body.tags # <<>> THEN [tags |-> body.tags] ELSE Empty

\* await docRef.update(...); the result; then the route's learning decision.
updateHelpRequestWrite(p) ==
    /\ pc[p] = "updateWrite"
    /\ LET id == frame[p].id
           body == frame[p].body
           now == frame[p].now
           updated == updateResult(frame[p].existing, body, now)
       IN /\ requests' = [requests EXCEPT ![id] = updatedDocument(@, body, now)]
          /\ IF IsTimeout(p)
             THEN /\ SetLocals(p, [updated |-> updated])
                  /\ Finish(p, 200, updated)
             ELSE IF shouldAdd(body) /\ "answer" \in DOMAIN updated
             THEN /\ SetLocals(p, [updated |-> updated,
                                   input |-> [question |-> updated.question,
                                              answer |-> updated.answer,
                                              source |-> "supervisor"] @@ patchTags(body)])
                  /\ Goto(p, "ensureSeed")
             ELSE /\ SetLocals(p, [updated |-> updated])
                  /\ Finish(p, 200, updated)
    /\ UNCHANGED <<knowledge, clock, seedVars, calls>>

\* The response has been sent; the caller may issue its next request.
Return(p) ==
    /\ pc[p] = "done"
    /\ pc' = [pc EXCEPT ![p] = "idle"]
    /\ frame' = [frame EXCEPT ![p] = Idle]
    /\ resp' = [resp EXCEPT ![p] = NoResponse]
    /\ UNCHANGED <<requests, knowledge, clock, seedVars, calls>>

----------------------------------------------------------------------------
(* The knowledge base: DEFAULT_KNOWLEDGE_SEED and ensureKnowledgeSeed. *)

SeedTime == 0

seedEntry(n) ==
    CASE n = 1 -> [id |-> "hours", question |-> <<"H", "r", "s">>,
                   answer |-> <<"9">>, tags |-> << <<"s">>, <<"h">> >>]
      [] n = 2 -> [id |-> "location", question |-> <<"L", "o", "c">>,
                   answer |-> <<"1">>, tags |-> << <<"l">>, <<"p">> >>]
      [] n = 3 -> [id |-> "services", question |-> <<"S", "v", "c">>,
                   answer |-> <<"m">>, tags |-> << <<"v">> >>]
      [] n = 4 -> [id |-> "pricing", question |-> <<"P", "r", "c">>,
                   answer |-> <<"8">>, tags |-> << <<"c">> >>]
      [] OTHER -> [id |-> "cancellation", question |-> <<"C", "n", "c">>,
                   answer |-> <<"2">>, tags |-> << <<"o">> >>]

DEFAULT_KNOWLEDGE_SEED ==
    { seedEntry(n) @@ [source |-> "seed", createdAt |-> SeedTime, updatedAt |-> SeedTime] :
        n \in 1 .. SeedCount }

\* The document docRef.set writes for a seed entry.
seedDocument(entry) == [questionLower |-> toLowerCase(entry.question)] @@ entry

\* docRef.set(record): the document is replaced as a whole.
docSet(collection, id, record) ==
    [d \in DOMAIN collection \cup {id} |-> IF d = id THEN record ELSE collection[d]]

Awaiting == { p \in Callers : pc[p] \in {"awaitSeed", "readAwait"} }

\* The seeding promise rejects: the catch handler resets knowledgeSeedPromise and
\* every caller awaiting the promise gets the error, which its route answers with 500.
RejectSeeding(stillInFlight) ==
    /\ seedPromise' = "null"
    /\ seedPending' = {}
    /\ seedOrphans' = seedOrphans \cup stillInFlight
    /\ pc' = [p \in Callers |-> IF p \in Awaiting THEN "done" ELSE pc[p]]
    /\ resp' = [p \in Callers |->
                  IF p \in Awaiting
                  THEN [status |-> 500, body |-> [error |-> "Failed"]]
                  ELSE resp[p]]

\* const snapshot = await collection.limit(1).get(), and the writes it starts.
SeedCheck ==
    /\ seedPromise = "checking"
    /\ IF knowledge # Empty
       THEN /\ seedPromise' = "fulfilled"
            /\ UNCHANGED seedPending
       ELSE /\ seedPromise' = "writing"
            /\ seedPending' = DEFAULT_KNOWLEDGE_SEED
    /\ UNCHANGED <<requests, knowledge, clock, seedOrphans, pc, frame, resp, calls>>

SeedCheckFails ==
    /\ seedPromise = "checking"
    /\ RejectSeeding({})
    /\ UNCHANGED <<requests, knowledge, clock, frame, calls>>

\* One docRef.set of the Promise.all lands; the last one fulfils the promise.
SeedWrite(entry) ==
    /\ seedPromise = "writing"
    /\ entry \in seedPending
    /\ knowledge' = docSet(knowledge, entry.id, seedDocument(entry))
    /\ seedPending' = seedPending \ {entry}
    /\ seedPromise' = IF seedPending' = {} THEN "fulfilled" ELSE "writing"
    /\ UNCHANGED <<requests, clock, seedOrphans, pc, frame, resp, calls>>

\* One docRef.set fails: Promise.all rejects while the other writes are in flight.
SeedWriteFails(entry) ==
    /\ seedPromise = "writing"
    /\ entry \in seedPending
    /\ RejectSeeding(seedPending \ {entry})
    /\ UNCHANGED <<requests, knowledge, clock, frame, calls>>

\* A write started by a rejected attempt lands, or fails unobserved.
OrphanWrite(entry) ==
    /\ entry \in seedOrphans
    /\ seedOrphans' = seedOrphans \ {entry}
    /\ \/ knowledge' = docSet(knowledge, entry.id, seedDocument(entry))
       \/ UNCHANGED knowledge
    /\ UNCHANGED <<requests, clock, seedPromise, seedPending, pc, frame, resp, calls>>

----------------------------------------------------------------------------
(* POST /api/knowledge-base, upsertKnowledgeEntry and addAnswerToKnowledgeBase. *)

PostKnowledge(p, body) ==
    /\ pc[p] = "idle"
    /\ calls < MaxCalls
    /\ calls' = calls + 1
    /\ frame' = [frame EXCEPT ![p] = [op |-> "upsert", input |-> body]]
    /\ IF \/ "question" \notin DOMAIN body \/ body.question = <<>>
          \/ "answer" \notin DOMAIN body \/ body.answer = <<>>
       THEN Finish(p, 400, [error |-> "question and answer are required"])
       ELSE Goto(p, "ensureSeed")
    /\ UNCHANGED <<requests, knowledge, clock, seedVars>>

RECURSIVE trimTags(_)
\* tags.map((tag) => tag.trim()).filter(Boolean)
trimTags(tags) ==
    IF tags = <<>> THEN <<>>
    ELSE IF trim(Head(tags)) = <<>> THEN trimTags(Tail(tags))
    ELSE <<trim(Head(tags))>> \o trimTags(Tail(tags))

\* input.tags?.map(...)...: absent when the input has no tags.
inputTags(input) == IF "tags" \in DOMAIN input THEN [tags |-> trimTags(input.tags)] ELSE Empty

hasTags(input) == "tags" \in DOMAIN input /\ trimTags(input.tags) # <<>>

\* await ensureKnowledgeSeed(): the promise is created by the first caller and
\* shared by the later ones; a fulfilled promise lets the caller go on at once.
ensureKnowledgeSeed(p) ==
    /\ pc[p] = "ensureSeed"
    /\ IF seedPromise = "fulfilled"
       THEN /\ Goto(p, "kbFind")
            /\ SetLocals(p, [kbNow |-> clock])
            /\ clock' \in ClockAfterRead
            /\ UNCHANGED seedPromise
       ELSE /\ Goto(p, "awaitSeed")
            /\ seedPromise' = IF seedPromise = "null" THEN "checking" ELSE seedPromise
            /\ UNCHANGED <<frame, clock>>
    /\ UNCHANGED <<requests, knowledge, seedPending, seedOrphans, calls>>

\* The awaited seeding promise is fulfilled.
SeedAwaited(p) ==
    /\ pc[p] = "awaitSeed"
    /\ seedPromise = "fulfilled"
    /\ Goto(p, "kbFind")
    /\ SetLocals(p, [kbNow |-> clock])
    /\ clock' \in ClockAfterRead
    /\ UNCHANGED <<requests, knowledge, seedVars, calls>>

\* A key that keeps the leading and trailing whitespace of the question.
questionKeyUntrimmed(question) == toLowerCase(question)

questionKey(question) == toLowerCase(trim(question))

\* A lookup that compares the stored question instead of its lower-cased form.
matchingQuestion(collection, questionLower) ==
    { d \in DOMAIN collection : collection[d].question = questionLower }

\* collection.where("questionLower", "==", questionLower)
matching(collection, questionLower) ==
    { d \in DOMAIN collection : collection[d].questionLower = questionLower }

\* .limit(1).get(): one of the matching documents, or none.
upsertFind(p) ==
    /\ pc[p] = "kbFind"
    /\ LET found == matching(knowledge, questionKey(frame[p].input.question))
       IN IF found = {}
          THEN SetLocals(p, [found |-> {}])
          ELSE \E d \in found : SetLocals(p, [found |-> {d}])
    /\ Goto(p, "kbWrite")
    /\ UNCHANGED <<requests, knowledge, clock, seedVars, calls>>

mergeUpdates(input, now) ==
    [answer |-> trim(input.answer), updatedAt |-> now]
      @@ (IF hasTags(input) THEN inputTags(input) ELSE Empty)
      @@ (IF "source" \in DOMAIN input THEN [source |-> input.source] ELSE Empty)

\* A merge that never removes the tags.
mergeDeletesNothing(input) == {}

mergeDeletes(input) == IF hasTags(input) THEN {} ELSE {"tags"}

newRecord(input, id, now) ==
    [id |-> id, question |-> trim(input.question), answer |-> trim(input.answer),
     source |-> IF "source" \in DOMAIN input THEN input.source ELSE "supervisor",
     createdAt |-> now, updatedAt |-> now, questionLower |-> questionKey(input.question)]
      @@ (IF hasTags(input) THEN inputTags(input) ELSE Empty)

uuid(n) ==
    CASE n = 1 -> "uuid-1"
      [] n = 2 -> "uuid-2"
      [] n = 3 -> "uuid-3"
      [] OTHER -> "uuid-4"

UnusedUuids == { n \in 1 .. MaxLearned : uuid(n) \notin DOMAIN knowledge }

randomUUID == uuid(CHOOSE n \in UnusedUuids : \A m \in UnusedUuids : n <= m)

\* The knowledge base as the merge or the create of upsertKnowledgeEntry leaves it.
upsertWritten(collection, found, input, id, now) ==
    IF found # {}
    THEN LET d == CHOOSE x \in found : TRUE
         IN [collection EXCEPT ![d] = docUpdate(@, mergeUpdates(input, now), mergeDeletes(input))]
    ELSE docSet(collection, id, newRecord(input, id, now))

\* await doc.ref.update(update), or await docRef.set(record).
upsertWrite(p) ==
    /\ pc[p] = "kbWrite"
    /\ frame[p].found # {} \/ UnusedUuids # {}
    /\ LET found == frame[p].found
           id == IF found # {} THEN CHOOSE x \in found : TRUE ELSE randomUUID
       IN /\ knowledge' = upsertWritten(knowledge, found, frame[p].input, id, frame[p].kbNow)
          /\ SetLocals(p, [docId |-> id])
    /\ Goto(p, "kbRefresh")
    /\ UNCHANGED <<requests, clock, seedVars, calls>>

\* const refreshed = await doc.ref.get(); the entry is returned, and the route answers.
upsertRefresh(p) ==
    /\ pc[p] = "kbRefresh"
    /\ LET entry == sanitizeKnowledgeEntry(knowledge[frame[p].docId], frame[p].docId)
       IN /\ SetLocals(p, [entry |-> entry])
          /\ IF frame[p].op = "patch"
             THEN Finish(p, 200, frame[p].updated)
             ELSE Finish(p, 201, entry)
    /\ UNCHANGED <<requests, knowledge, clock, seedVars, calls>>

\* A Firestore call of upsertKnowledgeEntry throws; the route answers 500.
upsertFails(p) ==
    /\ pc[p] \in {"kbFind", "kbWrite", "kbRefresh"}
    /\ Finish(p, 500, [error |-> "Failed"])
    /\ UNCHANGED <<requests, knowledge, clock, seedVars, frame, calls>>

----------------------------------------------------------------------------

Init ==
    /\ requests = Empty
    /\ knowledge = Empty
    /\ clock = 1
    /\ seedPromise = "null"
    /\ seedPending = {}
    /\ seedOrphans = {}
    /\ pc = [p \in Callers |-> "idle"]
    /\ frame = [p \in Callers |-> Idle]
    /\ resp = [p \in Callers |-> NoResponse]
    /\ calls = 0

\* The request lifecycle alone: supervisors who do not teach the knowledge base.
NextRequests ==
    \E p \in Callers :
        \/ \E payload \in CreateInputs : PostHelpRequest(p, payload)
        \/ createHelpRequest(p)
        \/ \E id \in RequestIds, body \in PatchBodiesNoLearn : Patch(p, id, body)
        \/ PatchGet(p)
        \/ updateHelpRequestGet(p)
        \/ updateHelpRequestWrite(p)
        \/ Return(p)

SpecRequests == Init /\ [][NextRequests]_vars

\* Seeding whose Firestore calls all succeed.
Seeding ==
    \/ SeedCheck
    \/ \E entry \in DEFAULT_KNOWLEDGE_SEED : SeedWrite(entry)

\* Seeding whose Firestore calls may fail.
SeedingFails ==
    \/ SeedCheckFails
    \/ \E entry \in DEFAULT_KNOWLEDGE_SEED : SeedWriteFails(entry) \/ OrphanWrite(entry)

UpsertSteps(p) ==
    \/ ensureKnowledgeSeed(p)
    \/ SeedAwaited(p)
    \/ upsertFind(p)
    \/ upsertWrite(p)
    \/ upsertRefresh(p)
    \/ upsertFails(p)

\* The knowledge base alone: callers of POST /api/knowledge-base.
NextKnowledge ==
    \/ Seeding
    \/ \E p \in Callers :
          \/ \E body \in UpsertInputs : PostKnowledge(p, body)
          \/ UpsertSteps(p)
          \/ Return(p)

SpecKnowledge == Init /\ [][NextKnowledge]_vars

\* One client of POST /api/knowledge-base that issues its requests one after another.
NextSequential ==
    \/ Seeding
    \/ \E body \in UpsertInputs : PostKnowledge("c1", body)
    \/ UpsertSteps("c1")
    \/ Return("c1")

SpecSequential == Init /\ [][NextSequential]_vars

\* The knowledge base when the Firestore calls of seeding may fail.
NextSeeding == NextKnowledge \/ SeedingFails

SpecSeeding == Init /\ [][NextSeeding]_vars

\* The whole backend: requests whose answers are learned.
Next ==
    \/ Seeding
    \/ \E p \in Callers :
          \/ \E payload \in CreateInputs : PostHelpRequest(p, payload)
          \/ createHelpRequest(p)
          \/ \E id \in RequestIds, body \in PatchBodiesLearn : Patch(p, id, body)
          \/ PatchGet(p)
          \/ updateHelpRequestGet(p)
          \/ updateHelpRequestWrite(p)
          \/ UpsertSteps(p)
          \/ Return(p)

Spec == Init /\ [][Next]_vars

----------------------------------------------------------------------------
(* GET /api/help-requests/[id], GET /api/help-requests and listHelpRequests. *)

RECURSIVE Rankings(_, _)
\* The orders in which documents can be listed best first: a higher rank comes
\* first, and documents of equal rank come in the order of their ids, which are
\* random.
Rankings(ids, rank) ==
    IF ids = {} THEN { <<>> }
    ELSE LET best == { d \in ids : \A e \in ids : rank[d] >= rank[e] }
         IN UNION { { <<d>> \o s : s \in Rankings(ids \ {d}, rank) } : d \in best }

\* A cut that keeps the first element only.
sliceFirst(s, limit) == SubSeq(s, 1, IF s = <<>> THEN 0 ELSE 1)

\* array.slice(0, limit)
slice(s, limit) == SubSeq(s, 1, IF limit < Len(s) THEN limit ELSE Len(s))

Get(p, id) ==
    /\ pc[p] = "idle"
    /\ calls < MaxCalls
    /\ calls' = calls + 1
    /\ frame' = [frame EXCEPT ![p] = [op |-> "get", id |-> id]]
    /\ Goto(p, "getRead")
    /\ UNCHANGED <<requests, knowledge, clock, seedVars>>

\* const item = await getHelpRequest(id), and the route's answer.
getHelpRequest(p) ==
    /\ pc[p] = "getRead"
    /\ LET id == frame[p].id
       IN IF id \notin DOMAIN requests
          THEN Finish(p, 404, [error |-> "Not found"])
          ELSE Finish(p, 200, sanitizeHelpRequest(requests[id], id))
    /\ UNCHANGED <<requests, knowledge, clock, seedVars, frame, calls>>

VALID_STATUS == {"pending", "resolved", "timeout", "all"}

\* The status filter a query string names, once lower-cased.
statusParam(params) ==
    IF "status" \notin DOMAIN params THEN "pending"
    ELSE LET lower == toLowerCase(params.status)
         IN CASE lower = <<"a", "l", "l">> -> "all"
              [] lower = <<"p", "e", "n", "d", "i", "n", "g">> -> "pending"
              [] lower = <<"r", "e", "s", "o", "l", "v", "e", "d">> -> "resolved"
              [] lower = <<"t", "i", "m", "e", "o", "u", "t">> -> "timeout"
              [] OTHER -> "invalid"

StatusParams ==
    { Empty, [status |-> <<"A", "L", "L">>], [status |-> <<"x">>],
      [status |-> <<"r", "e", "s", "o", "l", "v", "e", "d">>] }

List(p, params) ==
    /\ pc[p] = "idle"
    /\ calls < MaxCalls
    /\ calls' = calls + 1
    /\ frame' = [frame EXCEPT ![p] = [op |-> "list", status |-> statusParam(params)]]
    /\ IF statusParam(params) \notin VALID_STATUS
       THEN Finish(p, 400, [error |-> "Invalid status filter"])
       ELSE Goto(p, "listRead")
    /\ UNCHANGED <<requests, knowledge, clock, seedVars>>

\* The help requests of a status in any order.
listedRequestsUnsorted(collection, status) ==
    LET ids == { id \in DOMAIN collection :
                    status = "all" \/ collection[id].status = status }
    IN Rankings(ids, [id \in ids |-> 0])

\* The help requests of a status, newest createdAt first.
listedRequests(collection, status) ==
    LET ids == { id \in DOMAIN collection :
                    status = "all" \/ collection[id].status = status }
    IN Rankings(ids, [id \in ids |-> collection[id].createdAt])

\* snapshot = await collection...get(); the items are sanitized and sorted.
listHelpRequests(p) ==
    /\ pc[p] = "listRead"
    /\ \E order \in listedRequests(requests, frame[p].status) :
          Finish(p, 200, [items |-> [i \in DOMAIN order |->
                                        sanitizeHelpRequest(requests[order[i]], order[i])]])
    /\ UNCHANGED <<requests, knowledge, clock, seedVars, frame, calls>>

\* The request lifecycle with its readers: the pollers and the dashboard.
NextReads ==
    \/ NextRequests
    \/ \E p \in Callers :
          \/ \E id \in RequestIds : Get(p, id)
          \/ getHelpRequest(p)
          \/ \E params \in StatusParams : List(p, params)
          \/ listHelpRequests(p)

SpecReads == Init /\ [][NextReads]_vars

\* A desk that opens with a request of an earlier caller still pending.
InitListing ==
    /\ requests = (0 :> createRecord([question |-> <<"H", "r", "s">>], 0, 0))
    /\ knowledge = Empty
    /\ clock = 1
    /\ seedPromise = "null"
    /\ seedPending = {}
    /\ seedOrphans = {}
    /\ pc = [p \in Callers |-> "idle"]
    /\ frame = [p \in Callers |-> Idle]
    /\ resp = [p \in Callers |-> NoResponse]
    /\ calls = 0

SpecListing == InitListing /\ [][NextReads]_vars

----------------------------------------------------------------------------
(* GET /api/knowledge-base, searchKnowledgeEntries and listKnowledgeEntries. *)

\* The limit searchKnowledgeEntries and the route use when none is given.
DefaultLimit == 5

\* string.includes(t)
includes(s, t) == \E i \in 0 .. (Len(s) - Len(t)) : SubSeq(s, i + 1, i + Len(t)) = t

\* A score that looks at the question only.
scoreQuestionOnly(entry, trimmed) ==
    IF includes(toLowerCase(entry.question), trimmed) THEN 2 ELSE 0

\* The score searchKnowledgeEntries gives an entry for the trimmed, lower-cased query.
score(entry, trimmed) ==
    (IF includes(toLowerCase(entry.question), trimmed) THEN 2 ELSE 0)
      + (IF includes(toLowerCase(entry.answer), trimmed) THEN 1 ELSE 0)
      + (IF /\ "tags" \in DOMAIN entry
            /\ \E i \in DOMAIN entry.tags : includes(toLowerCase(entry.tags[i]), trimmed)
         THEN 1 ELSE 0)

\* The place of a document id among the ids, which Firestore orders as strings:
\* a random UUID starts with a hexadecimal digit and so comes before the seed
\* ids hours, location, pricing and services.
idRank(d) ==
    CASE d = uuid(1) -> 1
      [] d = uuid(2) -> 2
      [] d = uuid(3) -> 3
      [] d = uuid(4) -> 4
      [] d = "cancellation" -> 5
      [] d = "hours" -> 6
      [] d = "location" -> 7
      [] d = "pricing" -> 8
      [] OTHER -> 9

RECURSIVE snapshotOrder(_)
\* collection.get(): the documents in the order of their ids.
snapshotOrder(ids) ==
    IF ids = {} THEN <<>>
    ELSE LET first == CHOOSE d \in ids : \A e \in ids : idRank(d) <= idRank(e)
         IN <<first>> \o snapshotOrder(ids \ {first})

\* Among the elements of the best rank, the one a sort puts first: the last.
lastOfBest(docs, rank) ==
    CHOOSE i \in DOMAIN docs :
        /\ \A j \in DOMAIN docs : rank[docs[j]] <= rank[docs[i]]
        /\ \A j \in DOMAIN docs : j > i => rank[docs[j]] < rank[docs[i]]

\* Among the elements of the best rank, the one a stable sort puts first.
firstOfBest(docs, rank) ==
    CHOOSE i \in DOMAIN docs :
        /\ \A j \in DOMAIN docs : rank[docs[j]] <= rank[docs[i]]
        /\ \A j \in DOMAIN docs : j < i => rank[docs[j]] < rank[docs[i]]

RECURSIVE sortByScore(_, _)
\* array.sort((a, b) => b.score - a.score): best first, equal scores in the
\* order they had.
sortByScore(docs, rank) ==
    IF docs = <<>> THEN <<>>
    ELSE LET i == firstOfBest(docs, rank)
         IN <<docs[i]>> \o sortByScore(SubSeq(docs, 1, i - 1) \o SubSeq(docs, i + 1, Len(docs)), rank)

\* The scoring without the early return for a blank query.
searchResultsUnguarded(collection, query, limit) ==
    LET trimmed == toLowerCase(trim(query))
        entryOf(d) == sanitizeKnowledgeEntry(collection[d], d)
        scored == { d \in DOMAIN collection : score(entryOf(d), trimmed) > 0 }
    IN { slice(sortByScore(snapshotOrder(scored),
                           [d \in scored |-> score(entryOf(d), trimmed)]), limit) }

\* The entries with a positive score, best first, cut to the limit.
searchResults(collection, query, limit) ==
    LET trimmed == toLowerCase(trim(query))
        entryOf(d) == sanitizeKnowledgeEntry(collection[d], d)
        scored == { d \in DOMAIN collection : score(entryOf(d), trimmed) > 0 }
    IN IF trimmed = <<>> THEN { <<>> }
       ELSE { slice(sortByScore(snapshotOrder(scored),
                                [d \in scored |-> score(entryOf(d), trimmed)]), limit) }

\* A listing with the oldest update first.
listedEntriesOldestFirst(collection, params) ==
    { slice(s, IF "limit" \in DOMAIN params THEN params.limit ELSE Len(s)) :
        s \in Rankings(DOMAIN collection,
                       [d \in DOMAIN collection |-> 0 - collection[d].updatedAt]) }

\* collection.orderBy("updatedAt", "desc"), cut by the route to the limit given.
listedEntries(collection, params) ==
    { slice(s, IF "limit" \in DOMAIN params THEN params.limit ELSE Len(s)) :
        s \in Rankings(DOMAIN collection,
                       [d \in DOMAIN collection |-> collection[d].updatedAt]) }

\* query && query.trim().length > 0
hasQuery(params) == "q" \in DOMAIN params /\ trim(params.q) # <<>>

limitOf(params) == IF "limit" \in DOMAIN params THEN params.limit ELSE DefaultLimit

GetKnowledge(p, params) ==
    /\ pc[p] = "idle"
    /\ calls < MaxCalls
    /\ calls' = calls + 1
    /\ frame' = [frame EXCEPT ![p] = [op |-> "search", params |-> params]]
    /\ Goto(p, "readSeed")
    /\ UNCHANGED <<requests, knowledge, clock, seedVars>>

\* A call of the exported server function searchKnowledgeEntries(query, limit).
searchKnowledgeEntries(p, params) ==
    /\ pc[p] = "idle"
    /\ calls < MaxCalls
    /\ calls' = calls + 1
    /\ frame' = [frame EXCEPT ![p] = [op |-> "match", params |-> params]]
    /\ Goto(p, "readSeed")
    /\ UNCHANGED <<requests, knowledge, clock, seedVars>>

\* await ensureKnowledgeSeed() of a reader of the knowledge base.
readerEnsureSeed(p) ==
    /\ pc[p] = "readSeed"
    /\ IF seedPromise = "fulfilled"
       THEN /\ Goto(p, "kbRead")
            /\ UNCHANGED seedPromise
       ELSE /\ Goto(p, "readAwait")
            /\ seedPromise' = IF seedPromise = "null" THEN "checking" ELSE seedPromise
    /\ UNCHANGED <<requests, knowledge, clock, seedPending, seedOrphans, frame, calls>>

readerSeedAwaited(p) ==
    /\ pc[p] = "readAwait"
    /\ seedPromise = "fulfilled"
    /\ Goto(p, "kbRead")
    /\ UNCHANGED <<requests, knowledge, clock, seedVars, frame, calls>>

\* A read that leaves the entries of source "ai" out.
readKnowledgeWithoutAi(p) ==
    /\ pc[p] = "kbRead"
    /\ LET params == frame[p].params
           kept == { d \in DOMAIN knowledge : knowledge[d].source # "ai" }
           visible == [d \in kept |-> knowledge[d]]
           orders == IF frame[p].op = "match" \/ hasQuery(params)
                     THEN searchResults(visible, params.q, limitOf(params))
                     ELSE listedEntries(visible, params)
       IN \E order \in orders :
             Finish(p, 200, [items |-> [i \in DOMAIN order |->
                                sanitizeKnowledgeEntry(knowledge[order[i]], order[i])]])
    /\ UNCHANGED <<requests, knowledge, clock, seedVars, frame, calls>>

\* The collection is read, and the entries are scored or listed and returned.
readKnowledge(p) ==
    /\ pc[p] = "kbRead"
    /\ LET params == frame[p].params
           orders == IF frame[p].op = "match" \/ hasQuery(params)
                     THEN searchResults(knowledge, params.q, limitOf(params))
                     ELSE listedEntries(knowledge, params)
       IN \E order \in orders :
             Finish(p, 200, [items |-> [i \in DOMAIN order |->
                                sanitizeKnowledgeEntry(knowledge[order[i]], order[i])]])
    /\ UNCHANGED <<requests, knowledge, clock, seedVars, frame, calls>>

ReadSteps(p) ==
    \/ readerEnsureSeed(p)
    \/ readerSeedAwaited(p)
    \/ readKnowledge(p)

----------------------------------------------------------------------------
(* The front desk: an agent that escalates questions, searches the knowledge
   base and times out the questions nobody answered, and a supervisor who
   answers. *)

\* Questions of the agent: one to answer, and blank or missing ones.
DeskCreateInputs ==
    { [question |-> <<" ", "s", " ", "b">>],
      [question |-> <<" ">>], [question |-> <<>>], [customerName |-> <<"n">>] }

\* Bodies of the supervisor: learned by default or on demand, not learned,
\* without a usable answer, and the timeout.
DeskPatchBodies ==
    { [action |-> "timeout"],
      [answer |-> <<" ", "y">>],
      [answer |-> <<"x">>, shouldAddToKnowledgeBase |-> TRUE, tags |-> << <<"t">> >>],
      [answer |-> <<"x">>, shouldAddToKnowledgeBase |-> FALSE, tags |-> << <<"t">> >>],
      [answer |-> <<" ">>],
      [answer |-> <<>>] }

SearchParams ==
    { [q |-> <<" ", "S">>], [q |-> <<"s">>, limit |-> 1],
      [q |-> <<"b">>, limit |-> 1], [limit |-> 1] }

Agent == "c1"

Supervisor == "c2"

NextDesk ==
    \/ Seeding
    \/ \E payload \in DeskCreateInputs : PostHelpRequest(Agent, payload)
    \/ createHelpRequest(Agent)
    \/ \E params \in SearchParams : GetKnowledge(Agent, params)
    \/ ReadSteps(Agent)
    \/ \E id \in RequestIds : Patch(Agent, id, [action |-> "timeout"])
    \/ \E id \in RequestIds, body \in DeskPatchBodies : Patch(Supervisor, id, body)
    \/ \E p \in Callers :
          \/ PatchGet(p)
          \/ updateHelpRequestGet(p)
          \/ updateHelpRequestWrite(p)
    \/ UpsertSteps(Supervisor)
    \/ \E p \in Callers : Return(p)

SpecDesk == Init /\ [][NextDesk]_vars

----------------------------------------------------------------------------
(* The knowledge base and its readers: a supervisor who teaches it and an agent
   who searches and lists it. *)

\* Entries that match queries by their question, their answer or a tag alone.
SearchEntries ==
    { [question |-> <<"A", " ", "b">>, answer |-> <<"x">>,
       tags |-> << <<"t">> >>, source |-> "ai"],
      [question |-> <<"b">>, answer |-> <<"a", " ", "b">>],
      [question |-> <<"c">>, answer |-> <<"x">>, tags |-> << <<"B">> >>] }

\* The query strings of GET /api/knowledge-base.
SearchQueries ==
    { [q |-> <<"b", " ", "a">>], [q |-> <<" ", "A", " ", "b">>], [q |-> <<"x">>],
      [q |-> <<"b">>, limit |-> 1], [q |-> <<"z">>],
      [q |-> <<" ">>], [q |-> <<>>], [limit |-> 1], Empty }

\* The arguments of searchKnowledgeEntries.
MatcherQueries ==
    { [q |-> <<>>], [q |-> <<" ">>, limit |-> 1], [q |-> <<"z">>], [q |-> <<"B">>] }

NextSearch ==
    \/ Seeding
    \/ \E body \in SearchEntries : PostKnowledge(Supervisor, body)
    \/ UpsertSteps(Supervisor)
    \/ \E params \in SearchQueries : GetKnowledge(Agent, params)
    \/ \E params \in MatcherQueries : searchKnowledgeEntries(Agent, params)
    \/ ReadSteps(Agent)
    \/ \E p \in Callers : Return(p)

SpecSearch == Init /\ [][NextSearch]_vars

----------------------------------------------------------------------------
(* The voice agent's watch over a help request it created: it polls
   GET /api/help-requests/[id] until a supervisor has answered or its time is
   up, and then sends the fallback, the timeout of the request. *)

\* Seconds between two polls, and the seconds after which the agent gives up.
HELP_REQUEST_POLL_INTERVAL == 5
HELP_REQUEST_POLL_TIMEOUT == 180

\* The agent's POST was answered with the new request: it starts polling.
PollerStart(p) ==
    /\ pc[p] = "done"
    /\ frame[p].op = "create"
    /\ resp[p].status = 201
    /\ frame' = [frame EXCEPT ![p] = [op |-> "poll", id |-> resp[p].body.id, waited |-> 0]]
    /\ Goto(p, "getRead")
    /\ UNCHANGED <<requests, knowledge, clock, seedVars, calls>>

\* The poll has shown the request still pending, or has failed.
StillPending(p) ==
    /\ pc[p] = "done"
    /\ frame[p].op = "poll"
    /\ resp[p].status = 200 => resp[p].body.status = "pending"

\* The agent sleeps for the interval and polls again.
PollerSleep(p) ==
    /\ StillPending(p)
    /\ frame[p].waited + HELP_REQUEST_POLL_INTERVAL < HELP_REQUEST_POLL_TIMEOUT
    /\ frame' = [frame EXCEPT ![p].waited = @ + HELP_REQUEST_POLL_INTERVAL]
    /\ Goto(p, "getRead")
    /\ UNCHANGED <<requests, knowledge, clock, seedVars, calls>>

\* The time is up with the request still pending: the agent sends the timeout.
PollerDeadline(p) ==
    /\ StillPending(p)
    /\ frame[p].waited + HELP_REQUEST_POLL_INTERVAL >= HELP_REQUEST_POLL_TIMEOUT
    /\ frame' = [frame EXCEPT ![p] =
                   [op |-> "patch", id |-> frame[p].id, body |-> [action |-> "timeout"],
                    waited |-> frame[p].waited + HELP_REQUEST_POLL_INTERVAL]]
    /\ Goto(p, "routeGet")
    /\ UNCHANGED <<requests, knowledge, clock, seedVars, calls>>

\* The agent is done with a call that needs no watch: a rejected question, a
\* request seen resolved or timed out, the answer to its own timeout.
PollerReturn(p) ==
    /\ ~(frame[p].op = "create" /\ resp[p].status = 201)
    /\ ~StillPending(p)
    /\ Return(p)

\* The steps of the agent once its question is on its way.
PollerSteps(p) ==
    \/ createHelpRequest(p)
    \/ PollerStart(p)
    \/ getHelpRequest(p)
    \/ PollerSleep(p)
    \/ PollerDeadline(p)
    \/ PatchGet(p)
    \/ updateHelpRequestGet(p)
    \/ updateHelpRequestWrite(p)
    \/ PollerReturn(p)

\* The answer of the supervisor while the agent watches.
PollingPatchBodies == { [answer |-> <<"x">>, shouldAddToKnowledgeBase |-> FALSE] }

\* The agent escalates and watches; the supervisor answers or not.
NextPolling ==
    \/ \E payload \in CreateInputs : PostHelpRequest(Agent, payload)
    \/ PollerSteps(Agent)
    \/ \E id \in RequestIds, body \in PollingPatchBodies : Patch(Supervisor, id, body)
    \/ PatchGet(Supervisor)
    \/ updateHelpRequestGet(Supervisor)
    \/ updateHelpRequestWrite(Supervisor)
    \/ Return(Supervisor)

\* The agent's loop and the handlers it calls are scheduled fairly; nothing is
\* asked of the supervisor.
SpecPolling == Init /\ [][NextPolling]_vars /\ WF_vars(PollerSteps(Agent))

----------------------------------------------------------------------------
(* The claims. *)

Terminal == {"resolved", "timeout"}

\* Caller p's step is the write of updateHelpRequest.
WritesRequest(p) == pc[p] = "updateWrite" /\ pc'[p] # "updateWrite"

\* C1: once a help request's stored status is resolved or timeout, no later
\* resolve or timeout call changes its status.
C1_TerminalAbsorbing ==
    [][\A id \in DOMAIN requests :
          requests[id].status \in Terminal => requests'[id].status = requests[id].status]_vars

\* C2: when a resolve and a timeout race on a pending request (both read it while
\* it was pending), the write that comes second is a no-op: only one terminal
\* transition takes effect, and an applied resolve stays resolved.
C2_RaceOneWinner ==
    [][\A p \in Callers :
          (/\ WritesRequest(p)
           /\ frame[p].existing.status = "pending"
           /\ requests[frame[p].id].status \in Terminal)
          => requests'[frame[p].id] = requests[frame[p].id]]_vars

\* C3: a resolve of a request that was not pending when the call read it is
\* rejected (no success response) and leaves the stored record unchanged.
C3_ResolveRejected ==
    [][\A p \in Callers :
          (/\ WritesRequest(p)
           /\ ~IsTimeout(p)
           /\ frame[p].existing.status \in Terminal)
          => /\ requests' = requests
             /\ resp'[p].status # 200]_vars

\* C4: a timeout of a request that was already terminal when the call read it
\* writes nothing and returns the unchanged record.
C4_TimeoutNoOp ==
    [][\A p \in Callers :
          (/\ WritesRequest(p)
           /\ IsTimeout(p)
           /\ frame[p].existing.status \in Terminal)
          => /\ requests' = requests
             /\ resp'[p].body = frame[p].existing]_vars

\* C5: a pending request has neither resolvedAt nor timedOutAt, and a request
\* that has left pending has exactly one of them.
C5_ExactlyOneTerminalStamp ==
    \A id \in DOMAIN requests :
        LET r == requests[id]
        IN IF r.status = "pending"
           THEN "resolvedAt" \notin DOMAIN r /\ "timedOutAt" \notin DOMAIN r
           ELSE ("resolvedAt" \in DOMAIN r) # ("timedOutAt" \in DOMAIN r)

\* The stored request carries the resolution caller p wrote.
ResolveObservable(p) ==
    LET doc == requests[frame[p].id]
    IN doc = updatedDocument(doc, frame[p].body, frame[p].now)

\* The stored knowledge entry carries the answer caller p wrote.
LearningObservable(p) ==
    /\ "docId" \in DOMAIN frame[p]
    /\ knowledge[frame[p].docId].answer = trim(frame[p].input.answer)
    /\ knowledge[frame[p].docId].updatedAt = frame[p].kbNow

\* C6: when the knowledge upsert of a resolve fails, the resolve fails and
\* neither of its writes is observable.
C6_ResolveAllOrNothing ==
    \A p \in Callers :
        (/\ pc[p] = "done"
         /\ frame[p].op = "patch"
         /\ "updated" \in DOMAIN frame[p]
         /\ ~IsTimeout(p)
         /\ resp[p].status = 500)
        => ~ResolveObservable(p) /\ ~LearningObservable(p)

\* C7: the knowledge base holds at most one entry per normalized question, also
\* when upserts for the same question run concurrently.
C7_OneEntryPerKey ==
    \A d, e \in DOMAIN knowledge :
        knowledge[d].questionLower = knowledge[e].questionLower => d = e

\* Callers p and q both resolved the same request, each having read it pending.
ConcurrentResolves(p, q) ==
    /\ p # q
    /\ pc[p] = "done" /\ pc[q] = "done"
    /\ frame[p].op = "patch" /\ frame[q].op = "patch"
    /\ ~IsTimeout(p) /\ ~IsTimeout(q)
    /\ frame[p].id = frame[q].id
    /\ "existing" \in DOMAIN frame[p] /\ "existing" \in DOMAIN frame[q]
    /\ frame[p].existing.status = "pending"
    /\ frame[q].existing.status = "pending"

\* C8: of two concurrent resolves of one pending request exactly one succeeds,
\* and the knowledge base gains one entry for the question, not two.
C8_OneResolveSucceeds ==
    \A p, q \in Callers :
        ConcurrentResolves(p, q) =>
            /\ ~(resp[p].status = 200 /\ resp[q].status = 200)
            /\ Cardinality(matching(knowledge, questionKey(frame[p].existing.question))) <= 1

RECURSIVE collapseWhitespace(_)
\* Every run of spaces becomes one space.
collapseWhitespace(s) ==
    IF Len(s) < 2 THEN s
    ELSE IF IsSpace(s[1]) /\ IsSpace(s[2]) THEN collapseWhitespace(Tail(s))
    ELSE <<Head(s)>> \o collapseWhitespace(Tail(s))

\* The normalized question of the specification: trimmed, whitespace-collapsed,
\* lower-cased.
normalizeQuestion(q) == toLowerCase(collapseWhitespace(trim(q)))

\* The documents whose stored question has the same key as question q.
SameKey(collection, key(_), q) ==
    { d \in DOMAIN collection : key(collection[d].question) = key(q) }

\* Caller p's step is the write of upsertKnowledgeEntry.
WritesKnowledge(p) == pc[p] = "kbWrite" /\ pc'[p] = "kbRefresh"

\* The write of an upsert whose question has the key of a stored entry leaves one
\* entry for the key: the stored one, with the new answer and timestamp.
MergesIntoStored(p, key(_)) ==
    LET input == frame[p].input
        before == SameKey(knowledge, key, input.question)
    IN (WritesKnowledge(p) /\ before # {}) =>
          /\ DOMAIN knowledge' = DOMAIN knowledge
          /\ SameKey(knowledge', key, input.question) = before
          /\ Cardinality(before) = 1
          /\ \A d \in before :
                /\ knowledge'[d].answer = trim(input.answer)
                /\ knowledge'[d].id = knowledge[d].id
                /\ knowledge'[d].createdAt = knowledge[d].createdAt
                /\ knowledge'[d].updatedAt = frame[p].kbNow
                /\ knowledge'[d].updatedAt >= knowledge[d].updatedAt

SuppliedTags(input) == IF "tags" \in DOMAIN input THEN trimTags(input.tags) ELSE <<>>

CaseAndMarginKey(q) == toLowerCase(trim(q))

\* No two entries of the collection have questions with the same key.
OneEntryPer(key(_)) ==
    \A d, e \in DOMAIN knowledge :
        key(knowledge[d].question) = key(knowledge[e].question) => d = e

StepOf(p, op) == pc'[p] # pc[p] /\ frame'[p].op = op

\* C12: a create whose question is empty after trimming (whitespace only
\* included) is answered with an error and adds no record to the request store.
C12_BlankQuestionRejected ==
    [][\A p \in Callers :
          (StepOf(p, "create") /\ trimOptional(frame'[p].input, "question") = <<>>)
          => /\ requests' = requests
             /\ resp'[p].status # 201]_vars

\* The body asks for a resolve, and its answer is empty after trimming.
BlankResolve(body) ==
    /\ ~("action" \in DOMAIN body /\ body.action = "timeout")
    /\ ("answer" \in DOMAIN body => trim(body.answer) = <<>>)

\* Caller p's step is the route's read of a resolve, and the id is unknown.
UnknownResolve(p) ==
    /\ pc[p] = "routeGet"
    /\ ~IsTimeout(p)
    /\ frame[p].id \notin DOMAIN requests

\* C13: a resolve of an unknown id, or with an answer that is empty after
\* trimming, writes nothing: both collections and the seeding are as they were,
\* the call never reaches its writes, and it is answered with an error (404 for
\* the unknown id).
C13_FailedResolveWritesNothing ==
    [][\A p \in Callers :
          StepOf(p, "patch") =>
            /\ (UnknownResolve(p) \/ BlankResolve(frame'[p].body)) =>
                  /\ requests' = requests
                  /\ knowledge' = knowledge
                  /\ seedPromise' = seedPromise
                  /\ pc'[p] \in {"routeGet", "updateGet", "done"}
                  /\ pc'[p] = "done" => resp'[p].status \in {400, 404, 500}
            /\ UnknownResolve(p) => pc'[p] = "done" /\ resp'[p].status = 404]_vars

\* A resolve whose answer is blank has been refused by updateHelpRequest, and a
\* pending request is as it was created.
C13_Witness ==
    /\ pc[Supervisor] = "done"
    /\ frame[Supervisor].op = "patch"
    /\ frame[Supervisor].body = [answer |-> <<" ">>]
    /\ resp[Supervisor].status = 500
    /\ requests[frame[Supervisor].id].status = "pending"
    /\ requests[frame[Supervisor].id].updatedAt = requests[frame[Supervisor].id].createdAt

\* The record is resolved with the trimmed answer of the body and stamped now.
ResolvedWith(record, body, now) ==
    /\ record.status = "resolved"
    /\ "answer" \in DOMAIN record /\ record.answer = trim(body.answer)
    /\ "resolvedAt" \in DOMAIN record /\ record.resolvedAt = now
    /\ record.updatedAt = now

\* C14: the write of a resolve of a pending request leaves the stored record,
\* and answers with a record, whose status is resolved, whose answer is the
\* trimmed answer of the call and whose resolvedAt and updatedAt are the time
\* the call read the clock.
C14_ResolveSetsAnswerAndStamps ==
    [][\A p \in Callers :
          (/\ WritesRequest(p)
           /\ ~IsTimeout(p)
           /\ requests[frame[p].id].status = "pending")
          => /\ ResolvedWith(requests'[frame[p].id], frame[p].body, frame[p].now)
             /\ resp'[p].status = 200
             /\ ResolvedWith(resp'[p].body, frame[p].body, frame[p].now)
             /\ requests[frame[p].id].createdAt <= frame[p].now
             /\ frame[p].now <= clock]_vars

\* A pending request has been resolved with an answer typed with a leading
\* space, by a supervisor who gave a name.
C14_Witness ==
    \E p \in Callers :
        /\ pc[p] = "done"
        /\ frame[p].op = "patch"
        /\ "existing" \in DOMAIN frame[p]
        /\ frame[p].existing.status = "pending"
        /\ "answer" \in DOMAIN frame[p].body
        /\ frame[p].body.answer = <<" ", "y">>
        /\ resp[p].status = 200
        /\ resp[p].body.answer = <<"y">>
        /\ requests[frame[p].id] = resp[p].body
        /\ "supervisorName" \in DOMAIN requests[frame[p].id]

\* The record is timed out and stamped now, and carries no resolution.
TimedOutAt(record, now) ==
    /\ record.status = "timeout"
    /\ "timedOutAt" \in DOMAIN record /\ record.timedOutAt = now
    /\ record.updatedAt = now
    /\ "answer" \notin DOMAIN record
    /\ "resolvedAt" \notin DOMAIN record

\* C15: the write of a timeout of a pending request leaves the stored record,
\* and answers with a record, whose status is timeout, whose timedOutAt and
\* updatedAt are the time of the call and which has no answer and no resolvedAt;
\* and no step of a timeout call touches the knowledge base or its seeding.
C15_TimeoutOfPending ==
    [][\A p \in Callers :
          /\ (/\ StepOf(p, "patch")
              /\ "action" \in DOMAIN frame'[p].body
              /\ frame'[p].body.action = "timeout") =>
                /\ knowledge' = knowledge
                /\ seedPromise' = seedPromise
                /\ seedPending' = seedPending
          /\ (/\ WritesRequest(p)
              /\ IsTimeout(p)
              /\ requests[frame[p].id].status = "pending")
             => /\ TimedOutAt(requests'[frame[p].id], frame[p].now)
                /\ resp'[p].status = 200
                /\ TimedOutAt(resp'[p].body, frame[p].now)]_vars

\* The agent has timed out a pending request while the knowledge base held its
\* seed entries, and only them.
C15_Witness ==
    /\ pc[Agent] = "done"
    /\ frame[Agent].op = "patch"
    /\ IsTimeout(Agent)
    /\ resp[Agent].status = 200
    /\ resp[Agent].body.status = "timeout"
    /\ requests[frame[Agent].id] = resp[Agent].body
    /\ "resolvedAt" \notin DOMAIN requests[frame[Agent].id]
    /\ DOMAIN knowledge = { e.id : e \in DEFAULT_KNOWLEDGE_SEED }

\* C16: in every reachable state a help request carries answer, supervisorName
\* or supervisorNotes only if its status is resolved.
C16_ResolutionOnlyOnResolved ==
    \A id \in DOMAIN requests :
        requests[id].status # "resolved" =>
            DOMAIN requests[id] \cap {"answer", "supervisorName", "supervisorNotes"} = {}

\* The fields of a help request that are fixed at creation.
CreationFields ==
    {"id", "question", "customerName", "customerPhone", "channel", "createdAt"}

\* The part of a document that was fixed at creation.
AsCreated(doc) == [f \in DOMAIN doc \cap CreationFields |-> doc[f]]

\* C17: no step of a resolve, a timeout, a get or a list removes a help request
\* or changes its id, question, customerName, customerPhone, channel or
\* createdAt, in presence or in value; and its id is the id it is stored under.
C17_CreationFieldsFixed ==
    [][\A id \in DOMAIN requests :
          /\ id \in DOMAIN requests'
          /\ AsCreated(requests'[id]) = AsCreated(requests[id])
          /\ requests'[id].id = id]_vars

\* A request created with a customer name and phone has been resolved at a
\* later time and then read, and the reader got it as it was created.
C17_Witness ==
    \E p \in Callers :
        /\ pc[p] = "done"
        /\ frame[p].op = "get"
        /\ resp[p].status = 200
        /\ resp[p].body.status = "resolved"
        /\ {"customerName", "customerPhone"} \subseteq DOMAIN resp[p].body
        /\ resp[p].body.customerName = <<"n">>
        /\ resp[p].body.customerPhone = <<"5">>
        /\ resp[p].body.createdAt < resp[p].body.updatedAt
        /\ AsCreated(resp[p].body) = AsCreated(requests[frame[p].id])

\* The words of a string: its maximal runs of characters that are not spaces.
Words(s) ==
    { SubSeq(s, ij[1], ij[2]) :
        ij \in { x \in (1 .. Len(s)) \X (1 .. Len(s)) :
                    /\ x[1] <= x[2]
                    /\ \A k \in x[1] .. x[2] : ~IsSpace(s[k])
                    /\ x[1] = 1 \/ IsSpace(s[x[1] - 1])
                    /\ x[2] = Len(s) \/ IsSpace(s[x[2] + 1]) } }

\* Entry d holds the answer of a resolved request with the entry's question.
Learned(d) ==
    \E id \in DOMAIN requests :
        /\ requests[id].status = "resolved"
        /\ questionKey(requests[id].question) = knowledge[d].questionLower
        /\ requests[id].answer = knowledge[d].answer

\* The score of the stored entry d for a trimmed, lower-cased query.
ScoreOf(collection, d, trimmed) == score(sanitizeKnowledgeEntry(collection[d], d), trimmed)

\* The learning write of a resolve leaves an entry for the request's question
\* with the resolve's answer, which every word of the question scores above 0;
\* and a resolve that learns answers 200 only after that write.
LearnedOnResolve(p) ==
    /\ (WritesKnowledge(p) /\ frame[p].op = "patch") =>
          LET d == frame'[p].docId
              updated == frame[p].updated
          IN /\ knowledge'[d].questionLower = questionKey(updated.question)
             /\ knowledge'[d].answer = updated.answer
             /\ \A w \in Words(toLowerCase(updated.question)) : ScoreOf(knowledge', d, w) > 0
    /\ (/\ StepOf(p, "patch")
        /\ pc'[p] = "done"
        /\ resp'[p].status = 200
        /\ ~IsTimeout(p)
        /\ shouldAdd(frame[p].body)) =>
          /\ "docId" \in DOMAIN frame'[p]
          /\ frame'[p].docId \in DOMAIN knowledge'
          /\ knowledge'[frame'[p].docId].questionLower = questionKey(resp'[p].body.question)

\* Caller p's step is the read of a search with a query.
SearchStep(p) == pc[p] = "kbRead" /\ pc'[p] = "done" /\ hasQuery(frame[p].params)

\* The search of caller p answers with entry d.
Returned(p, d) ==
    \E i \in DOMAIN resp'[p].body.items : resp'[p].body.items[i].id = knowledge[d].id

\* The learned entries whose question has the query of caller p as a word.
Asked(p) ==
    { d \in DOMAIN knowledge :
        /\ Learned(d)
        /\ toLowerCase(trim(frame[p].params.q)) \in Words(knowledge[d].questionLower) }

\* The entries other than d that score at least as high as d.
Rivals(d, trimmed) ==
    { e \in DOMAIN knowledge \ {d} : ScoreOf(knowledge, e, trimmed) >= ScoreOf(knowledge, d, trimmed) }

\* C18 (as claimed): after a resolve with learning the knowledge base holds an
\* entry for the request's question with the resolve's answer, and every later
\* search for a word of that question returns that entry, with a positive score.
C18_LearnedThenFound ==
    [][\A p \in Callers :
          /\ LearnedOnResolve(p)
          /\ SearchStep(p) =>
                \A d \in Asked(p) :
                    /\ ScoreOf(knowledge, d, toLowerCase(trim(frame[p].params.q))) > 0
                    /\ Returned(p, d)]_vars

\* C18 (amended): a resolve with learning writes, before it answers, an entry
\* for the request's question with the resolve's answer; a later search for a
\* word of that question gives the entry, while it holds that answer, a positive
\* score, and returns it whenever fewer entries than the limit of the search
\* (5 when none is given) score at least as high.
C18_LearnedThenFoundWithinLimit ==
    [][\A p \in Callers :
          /\ LearnedOnResolve(p)
          /\ SearchStep(p) =>
                \A d \in Asked(p) :
                    LET trimmed == toLowerCase(trim(frame[p].params.q))
                    IN /\ ScoreOf(knowledge, d, trimmed) > 0
                       /\ Cardinality(Rivals(d, trimmed)) < limitOf(frame[p].params)
                             => Returned(p, d)]_vars

\* The agent has searched, without a limit, for a word of a question that the
\* supervisor answered, and got the learned entry after a seed entry.
C18_Witness ==
    /\ pc[Agent] = "done"
    /\ frame[Agent].op = "search"
    /\ frame[Agent].params = [q |-> <<" ", "S">>]
    /\ Len(resp[Agent].body.items) = 2
    /\ resp[Agent].body.items[1].id = "hours"
    /\ resp[Agent].body.items[2].id = uuid(1)
    /\ Learned(uuid(1))
    /\ resp[Agent].body.items[2].answer = requests[1].answer

\* shouldAddToKnowledgeBase is absent from the body, or true.
AbsentOrTrue(body) ==
    "shouldAddToKnowledgeBase" \in DOMAIN body => body.shouldAddToKnowledgeBase = TRUE

\* C19: the write of a resolve is followed by the knowledge upsert, of the
\* request's question and the resolve's answer, exactly when
\* shouldAddToKnowledgeBase is absent or true; when it is false the call answers
\* with the resolved request at once, and no step of it touches the knowledge
\* base or its seeding.
C19_LearnsUnlessToldNot ==
    [][\A p \in Callers :
          /\ (WritesRequest(p) /\ ~IsTimeout(p)) =>
                /\ (pc'[p] = "ensureSeed") <=> AbsentOrTrue(frame[p].body)
                /\ requests'[frame[p].id].status = "resolved"
                /\ IF AbsentOrTrue(frame[p].body)
                   THEN /\ frame'[p].input.question = requests'[frame[p].id].question
                        /\ frame'[p].input.answer = requests'[frame[p].id].answer
                   ELSE /\ pc'[p] = "done"
                        /\ resp'[p].status = 200
                        /\ resp'[p].body.status = "resolved"
          /\ (StepOf(p, "patch") /\ ~AbsentOrTrue(frame'[p].body)) =>
                /\ knowledge' = knowledge
                /\ seedPromise' = seedPromise
                /\ seedPending' = seedPending
          /\ (pc'[p] # pc[p] /\ pc[p] \in {"ensureSeed", "awaitSeed", "kbFind", "kbWrite"}) =>
                AbsentOrTrue(frame[p].body)]_vars

\* The supervisor has resolved a request with shouldAddToKnowledgeBase false
\* while the knowledge base held its seed entries, and it still holds only them.
C19_Witness ==
    /\ pc[Supervisor] = "done"
    /\ frame[Supervisor].op = "patch"
    /\ ~AbsentOrTrue(frame[Supervisor].body)
    /\ resp[Supervisor].status = 200
    /\ requests[frame[Supervisor].id].status = "resolved"
    /\ requests[frame[Supervisor].id].answer = <<"x">>
    /\ DOMAIN knowledge = { e.id : e \in DEFAULT_KNOWLEDGE_SEED }
    /\ \A d \in DOMAIN knowledge : knowledge[d].source = "seed"

\* C20: in every reachable state the source of every knowledge entry is one of
\* seed, human and ai (an entry created without a supplied source has source
\* human).
C20_SourceIsSeedHumanOrAi ==
    \A d \in DOMAIN knowledge : knowledge[d].source \in {"seed", "human", "ai"}

\* The lower-cased word tokens of a string.
Tokens(s) == Words(toLowerCase(s))

\* The tokens of an entry's question, answer and tags.
CandidateTokens(entry) ==
    Tokens(entry.question) \cup Tokens(entry.answer)
      \cup (IF "tags" \in DOMAIN entry
            THEN UNION { Tokens(entry.tags[i]) : i \in DOMAIN entry.tags }
            ELSE {})

IsPrefix(t, c) == Len(t) <= Len(c) /\ SubSeq(c, 1, Len(t)) = t

\* Twice the score of the specification: 2 for the query as a substring of the
\* question, 1 for every query token among the candidate tokens, 0.5 for every
\* query token that is a prefix of a candidate token.
TwiceTokenScore(entry, query) ==
    4 * (IF includes(toLowerCase(entry.question), query) THEN 1 ELSE 0)
      + 2 * Cardinality(Tokens(query) \cap CandidateTokens(entry))
      + Cardinality({ t \in Tokens(query) : \E c \in CandidateTokens(entry) : IsPrefix(t, c) })

\* The score by substrings: 2 for the query in the question, 1 for the query in
\* the answer, 1 for the query in some tag, all lower-cased.
SubstringScore(entry, query) ==
    (IF includes(toLowerCase(entry.question), query) THEN 2 ELSE 0)
      + (IF includes(toLowerCase(entry.answer), query) THEN 1 ELSE 0)
      + (IF "tags" \in DOMAIN entry /\ \E i \in DOMAIN entry.tags :
                                          includes(toLowerCase(entry.tags[i]), query)
         THEN 1 ELSE 0)

\* The stored entry d as a reader sees it.
EntryOf(d) == sanitizeKnowledgeEntry(knowledge[d], d)

\* The query of caller p, trimmed and lower-cased.
QueryOf(p) == toLowerCase(trim(frame[p].params.q))

\* The search of caller p answers with the entries that value(entry, query)
\* scores above 0, all of them when they are no more than the limit, a better
\* score never after a worse one.
AnswersByScore(p, value(_, _)) ==
    LET items == resp'[p].body.items
        matches == { d \in DOMAIN knowledge : value(EntryOf(d), QueryOf(p)) > 0 }
    IN /\ \A i \in DOMAIN items : value(items[i], QueryOf(p)) > 0
       /\ Cardinality(matches) <= limitOf(frame[p].params) =>
             { items[i].id : i \in DOMAIN items } = { knowledge[d].id : d \in matches }
       /\ \A i, j \in DOMAIN items :
             i < j => value(items[i], QueryOf(p)) >= value(items[j], QueryOf(p))

\* C21 (as claimed): the score of an entry is 2 for the lower-cased query as a
\* substring of the question, plus 1 per query token found among the entry's
\* tokens, plus 0.5 per query token that is a prefix of one of them; so a search
\* answers with the entries that score above 0 by this count, a multi-word query
\* one of whose words is a token of an entry among them.
C21_ScoreCountsTokens ==
    [][\A p \in Callers :
          SearchStep(p) =>
            /\ \A d \in DOMAIN knowledge :
                  2 * ScoreOf(knowledge, d, QueryOf(p)) = TwiceTokenScore(EntryOf(d), QueryOf(p))
            /\ AnswersByScore(p, TwiceTokenScore)]_vars

\* C21 (amended): the score of an entry is 2 if the trimmed, lower-cased query
\* is a substring of the lower-cased question, plus 1 if it is a substring of
\* the answer, plus 1 if it is a substring of some tag; a search answers with the
\* entries that score above 0 by this count, so a multi-word query finds an
\* entry only if the whole query occurs in its question, its answer or a tag.
C21_ScoreCountsSubstrings ==
    [][\A p \in Callers : SearchStep(p) => AnswersByScore(p, SubstringScore)]_vars

\* The agent has searched for a two-word query and got the entry with the query
\* in its question before the entry with the query in its answer.
C21_Witness ==
    /\ pc[Agent] = "done"
    /\ frame[Agent].op = "search"
    /\ frame[Agent].params = [q |-> <<" ", "A", " ", "b">>]
    /\ Len(resp[Agent].body.items) = 2
    /\ resp[Agent].body.items[1].question = <<"A", " ", "b">>
    /\ resp[Agent].body.items[2].answer = <<"a", " ", "b">>

\* Entry a comes before entry b in the order the store iterates its documents.
IteratedBefore(a, b) == idRank(a.id) < idRank(b.id)

\* C22: a search returns only entries with a positive score, a better score
\* before a worse one and entries of equal score in store iteration order, never
\* more than limit entries (5 when no limit is given), and leaves out a scoring
\* entry only when limit entries come before it.
C22_BestFirstStableWithinLimit ==
    [][\A p \in Callers :
          SearchStep(p) =>
            LET items == resp'[p].body.items
                limit == IF "limit" \in DOMAIN frame[p].params
                         THEN frame[p].params.limit ELSE 5
                value(e) == SubstringScore(e, QueryOf(p))
                before(a, b) == \/ value(a) > value(b)
                                \/ value(a) = value(b) /\ IteratedBefore(a, b)
            IN /\ Len(items) <= limit
               /\ \A i \in DOMAIN items : value(items[i]) > 0
               /\ \A i, j \in DOMAIN items : i < j => before(items[i], items[j])
               /\ \A d \in DOMAIN knowledge :
                     /\ value(EntryOf(d)) > 0
                     /\ \A i \in DOMAIN items : items[i].id # d
                     => /\ Len(items) = limit
                        /\ \A i \in DOMAIN items : before(items[i], EntryOf(d))]_vars

\* The agent has searched for a word that two entries have in their answers
\* only, and got the two in the order of the store, the entry written first
\* before the entry written second.
C22_Witness ==
    /\ pc[Agent] = "done"
    /\ frame[Agent].op = "search"
    /\ frame[Agent].params = [q |-> <<"x">>]
    /\ Len(resp[Agent].body.items) = 2
    /\ resp[Agent].body.items[1].id = uuid(1)
    /\ resp[Agent].body.items[1].question = <<"c">>
    /\ resp[Agent].body.items[2].id = uuid(2)
    /\ resp[Agent].body.items[2].question = <<"A", " ", "b">>

\* Caller p gets the result of a direct call of the matcher.
MatchStep(p) == pc[p] = "kbRead" /\ pc'[p] = "done" /\ frame[p].op = "match"

\* No stored entry has the query in its question, its answer or a tag.
MatchesNothing(query) ==
    \A d \in DOMAIN knowledge : SubstringScore(EntryOf(d), query) = 0

\* C23: the matcher returns an empty result, not all entries, for an empty or
\* whitespace-only query, and for a query that matches no entry, whatever the
\* store contains.
C23_BlankOrUnmatchedFindsNothing ==
    [][\A p \in Callers :
          MatchStep(p) =>
            LET q == frame[p].params.q
            IN (\A i \in DOMAIN q : q[i] = " ") \/ MatchesNothing(QueryOf(p))
               => resp'[p].body.items = <<>>]_vars

\* The matcher has been called with a whitespace-only query on a store that
\* holds the seed entries and an entry of the supervisor, and returned nothing.
C23_Witness ==
    /\ pc[Agent] = "done"
    /\ frame[Agent].op = "match"
    /\ frame[Agent].params = [q |-> <<" ">>, limit |-> 1]
    /\ resp[Agent].status = 200
    /\ resp[Agent].body.items = <<>>
    /\ \E d \in DOMAIN knowledge : knowledge[d].source = "seed"
    /\ \E d \in DOMAIN knowledge : knowledge[d].question = <<"b">>

\* Caller p gets the answer of the route to a search whose query is absent,
\* empty or blank.
ListingStep(p) ==
    /\ pc[p] = "kbRead" /\ pc'[p] = "done" /\ frame[p].op = "search"
    /\ "q" \in DOMAIN frame[p].params =>
          \A i \in DOMAIN frame[p].params.q : frame[p].params.q[i] = " "

\* C24: a search at the route with the query absent or empty returns the listing
\* of the knowledge entries, newest updatedAt first: every entry when no limit
\* is given, and the first limit entries of that listing when one is.
C24_NoQueryListsNewestFirst ==
    [][\A p \in Callers :
          ListingStep(p) =>
            LET items == resp'[p].body.items
                params == frame[p].params
                returned == { items[i].id : i \in DOMAIN items }
            IN /\ \A i, j \in DOMAIN items :
                     i < j => /\ items[i].id # items[j].id
                              /\ items[i].updatedAt >= items[j].updatedAt
               /\ \A i \in DOMAIN items : items[i] = EntryOf(items[i].id)
               /\ \A d \in DOMAIN knowledge :
                     d \notin returned =>
                        /\ "limit" \in DOMAIN params
                        /\ Len(items) = params.limit
                        /\ \A i \in DOMAIN items :
                              items[i].updatedAt >= knowledge[d].updatedAt
               /\ "limit" \in DOMAIN params => Len(items) <= params.limit]_vars

\* The agent has asked the route for one entry without a query, when the store
\* held the seed entries and a newer entry of the supervisor, and got the newer.
C24_Witness ==
    /\ pc[Agent] = "done"
    /\ frame[Agent].op = "search"
    /\ frame[Agent].params = [limit |-> 1]
    /\ Len(resp[Agent].body.items) = 1
    /\ resp[Agent].body.items[1].question = <<"b">>
    /\ \E d \in DOMAIN knowledge :
          /\ knowledge[d].source = "seed"
          /\ knowledge[d].updatedAt < resp[Agent].body.items[1].updatedAt

\* The sources an entry can carry.
Sources == {"seed", "supervisor", "ai"}

\* Document doc with its source replaced.
WithSource(doc, source) ==
    [f \in DOMAIN doc \cup {"source"} |-> IF f = "source" THEN source ELSE doc[f]]

\* Stores that differ from the knowledge store in the source of entries only:
\* in the source of one entry, or with one source for all entries.
SourceVariants ==
    { [d \in DOMAIN knowledge |-> IF d = e THEN WithSource(knowledge[d], s) ELSE knowledge[d]] :
        e \in DOMAIN knowledge, s \in Sources }
      \cup { [d \in DOMAIN knowledge |-> WithSource(knowledge[d], s)] : s \in Sources }

\* C27: the source of an entry never affects matching: a search returns the
\* entries, in the order, that the same query and limit find in every store
\* that differs from the store read only in the source of its entries.
C27_SourceNeverAffectsMatching ==
    [][\A p \in Callers :
          SearchStep(p) =>
            LET items == resp'[p].body.items
                found == [i \in DOMAIN items |-> items[i].id]
            IN \A other \in SourceVariants :
                  found \in searchResults(other, frame[p].params.q, limitOf(frame[p].params))]_vars

\* The agent has searched and found entries of different sources, one of them
\* of source "ai".
C27_Witness ==
    /\ pc[Agent] = "done"
    /\ frame[Agent].op = "search"
    /\ hasQuery(frame[Agent].params)
    /\ \E i, j \in DOMAIN resp[Agent].body.items :
          /\ resp[Agent].body.items[i].source = "ai"
          /\ resp[Agent].body.items[j].source = "supervisor"

\* Caller p gets the list of help requests it asked for.
ListStep(p) == pc[p] = "listRead" /\ pc'[p] = "done"

\* C25: list(status) returns exactly the stored help requests whose status
\* equals the filter, every request for the filter "all", each once and as it is
\* stored, a later createdAt before an earlier one.
C25_ListsMatchingNewestFirst ==
    [][\A p \in Callers :
          ListStep(p) =>
            LET items == resp'[p].body.items
                status == frame[p].status
                wanted == { id \in DOMAIN requests :
                                status = "all" \/ requests[id].status = status }
            IN /\ { items[i].id : i \in DOMAIN items } = wanted
               /\ Len(items) = Cardinality(wanted)
               /\ \A i \in DOMAIN items :
                     items[i] = sanitizeHelpRequest(requests[items[i].id], items[i].id)
               /\ \A i, j \in DOMAIN items :
                     i < j => items[i].createdAt >= items[j].createdAt]_vars

\* A caller has listed the pending requests and got two, the request created
\* later first.
C25_Witness ==
    \E p \in Callers :
        /\ pc[p] = "done"
        /\ frame[p].op = "list"
        /\ frame[p].status = "pending"
        /\ Len(resp[p].body.items) = 2
        /\ resp[p].body.items[1].createdAt > resp[p].body.items[2].createdAt

\* C28: in every reachable state, under any interleaving of create, resolve and
\* timeout calls, a help request whose stored status is resolved has a non-empty
\* answer, resolvedAt set and equal to updatedAt, and no timedOutAt.
C28_ResolvedRecordIsWhole ==
    \A id \in DOMAIN requests :
        requests[id].status = "resolved" =>
            /\ "answer" \in DOMAIN requests[id]
            /\ requests[id].answer # <<>>
            /\ "resolvedAt" \in DOMAIN requests[id]
            /\ requests[id].resolvedAt = requests[id].updatedAt
            /\ "timedOutAt" \notin DOMAIN requests[id]

\* A request is stored as resolved while a caller holds the answer to its
\* timeout of that request: the resolve wrote after the timeout did.
C28_Witness ==
    \E p \in Callers, id \in DOMAIN requests :
        /\ requests[id].status = "resolved"
        /\ pc[p] = "done"
        /\ frame[p].op = "patch"
        /\ frame[p].id = id
        /\ IsTimeout(p)
        /\ resp[p].status = 200
        /\ resp[p].body.status = "timeout"

\* C29: the HelpRequest a successful resolve or timeout returns equals the
\* stored record as it is right after that call's own write, for every
\* interleaving with other resolve and timeout calls on the same id.
C29_ReturnsWhatItStored ==
    [][\A p \in Callers :
          pc[p] = "updateWrite" /\ pc'[p] # "updateWrite" =>
            frame'[p].updated
              = sanitizeHelpRequest(requests'[frame[p].id], frame[p].id)]_vars

\* The await of ensureKnowledgeSeed by caller p returns without an error.
SeedEnsured(p) == pc[p] \in {"ensureSeed", "awaitSeed"} /\ pc'[p] = "kbFind"

\* C30: whenever a call to ensureKnowledgeSeed completes successfully, the
\* knowledge store contains every default seed entry, also when an earlier
\* attempt failed after writing only some of them and the promise was reset.
\* (The store is empty before the first seeding begins: every writer of the
\* store awaits ensureKnowledgeSeed first.)
C30_EnsuredMeansSeeded ==
    [][\A p \in Callers :
          SeedEnsured(p) =>
            \A entry \in DEFAULT_KNOWLEDGE_SEED : entry.id \in DOMAIN knowledge']_vars

====
